---- MODULE Spec2Model ----
(***************************************************************************)
(* Model of the notebook slf_old.ipynb: the spotted-lanternfly population  *)
(* model (slf_population_model) and the day-by-day pesticide scheduler     *)
(* (pesticide_application_strategy) with its usage ledger.                 *)
(*                                                                         *)
(* Number representation.  The notebook computes in floats; the model      *)
(* keeps the same quantities as exact integers in fixed units:             *)
(*   efficacy ratings        in quarters  (1 -> 4, 0.75 -> 3, 0.5 -> 2)    *)
(*   application rates,                                                    *)
(*   seasonal usage and caps in tenths    (6.4 -> 64)                      *)
(*   pressure thresholds     in hundredths (15*0.06 -> 90)                 *)
(* A missing rating (NaN) compares false with everything.                  *)
(***************************************************************************)
EXTENDS Integers, Sequences, FiniteSets, TLC

\* ------------------------------------------------------------ bounds ----
\* longest product table that is enumerated
MaxProducts == 2

\* ------------------------------------------------- program constants ----
\* default end_day of slf_population_model.  The scheduler calls the model
\* without an end day, so its schedule has 183 rows: a temperature list of
\* any other length fails before the first day is scheduled.
end_day == 183
default_initial_eggs == 10   \* default initial_eggs of slf_population_model
early_stage_end == 60   \* day < 60: growing nymphs
transition_end == 120   \* 60 <= day < 120: transition period
summer_end == 92        \* row['day'] <= 92: not autumn
BaseRate10 == 64        \* 6.4, in tenths
Gate4 == 3              \* 0.75, in quarters
nymph_threshold100 == 15 * 6   \* 15*0.06, in hundredths
adult_threshold100 == 5 * 6    \* 5*0.06, in hundredths
NaN == -1               \* efficacy_mapping[''] = None, mapped to NaN
NegInf == -1000000      \* -np.inf, initial last_use_day
NoneP == 0              \* None in the 'pesticide' column

\* efficacy_mapping, in quarters
efficacy_mapping ==
    [Excellent |-> 4, Good |-> 3, Poor |-> 2, Variable |-> 0,
     NotRecommended |-> 0, Empty |-> NaN]

\* ------------------------------------------------------------ inputs ----
\* Rows of pesticides.csv that the enumerated tables are built from:
\* Class, the two ratings, PHI (days), Seasonal Max (tenths), Max Applications.
Row(c, n, a, phi, smax, mapp) ==
    [Class |-> c, EffectOnNymphs |-> efficacy_mapping[n],
     EffectOnAdults |-> efficacy_mapping[a],
     PHI |-> phi, SeasonalMax |-> smax, MaxApplications |-> mapp]

RowPool ==
    { Row("A", "Excellent", "Excellent", 0, 200000, 200),
      Row("A", "Excellent", "Excellent", 0, 60000, 92),
      Row("A", "Good", "Poor", 0, 50000, 100),
      Row("B", "Poor", "Excellent", 0, 100000, 1),
      Row("A", "Excellent", "Good", 1, 100000, 100),
      Row("B", "Good", "NotRecommended", 1, 1000, 100),
      Row("B", "Empty", "Empty", 0, 100000, 100),
      Row("B", "Excellent", "Good", 20, 400, 2) }

RECURSIVE TablesOfLen(_)
TablesOfLen(n) ==
    IF n = 0 THEN { <<>> }
    ELSE { Append(t, r) : t \in TablesOfLen(n - 1), r \in RowPool }

\* the product tables: 'Product' is the row's position in the table
Tables == UNION { TablesOfLen(n) : n \in 1..MaxProducts }

HarvestDays == {20, 160, 190, 203}
TempValues == {10, 25}
PrecipValues == {5}

\* ------------------------------------------------------------- state ----
VARIABLES
    temperature,        \* input list, one value per day
    precipitation,      \* input list, one value per day
    harvest_day,        \* input
    df,                 \* the product table
    nymph_count,        \* application_schedule['nymph_count']
    adult_count,        \* application_schedule['adult_count']
    pesticide,          \* application_schedule['pesticide']
    application_rate,   \* application_schedule['application_rate'], tenths
    last_use_day,       \* class -> day of last use
    seasonal_usage,     \* product -> cumulated rate, tenths
    seasonal_use_count, \* product -> number of applications
    index,              \* number of rows of the schedule processed so far
    pc,                 \* "loop", "returned" or "raised"
    error,              \* the ValueError raised, as the message's content
    result,             \* the returned schedule: its rows, in order
    initial_eggs,       \* initial_eggs of the population model
    written,            \* the columns insecticide_effectiveness writes to df
    call,               \* 1 or 2: which call of the scheduler is running
    first,              \* outcome of the first call, kept for comparison
    profit              \* outcome of calculate_profit

vars == <<temperature, precipitation, harvest_day, df, nymph_count,
          adult_count, pesticide, application_rate, last_use_day,
          seasonal_usage, seasonal_use_count, index, pc, error, result,
          initial_eggs, written, call, first, profit>>

inputs == <<temperature, precipitation, harvest_day, df, nymph_count,
            adult_count, initial_eggs>>

\* what the day loop of the scheduler never touches
outside == <<call, first, profit>>

ledger == <<last_use_day, seasonal_usage, seasonal_use_count>>

Max(a, b) == IF a >= b THEN a ELSE b
Min(a, b) == IF a <= b THEN a ELSE b
Abs(a) == IF a >= 0 THEN a ELSE 0 - a

\* ------------------------------------------------- population model ----
\* (variant of temp_factor15 without the clamp to [0, 1])
temp_factor15_unclamped(t) == t - 10

\* temp_factor in fifteenths, precip_factor in tenths
temp_factor15(t) == Max(0, Min(15, t - 10))
precip_factor10(p) == 10 - Min(10, Abs(p - 5))

\* (variant of growth with a growth_rate of 0.1)
growth_tenth(nymph, t, p) ==
    (nymph * temp_factor15(t) * precip_factor10(p)) \div (10 * 15 * 10)

\* int(nymph * growth_rate * temp_factor * precip_factor), growth_rate 0.01
growth(nymph, t, p) ==
    (nymph * temp_factor15(t) * precip_factor10(p)) \div (100 * 15 * 10)

\* (variant of PopStep whose early stage already moves nymphs to adults)
PopStep_earlyMatures(prev, day, t, p) ==
    IF day = 1 THEN [nymph |-> prev.nymph, adult |-> 0]
    ELSE IF day < transition_end
    THEN [nymph |-> prev.nymph - growth(prev.nymph, t, p),
          adult |-> prev.adult + growth(prev.nymph, t, p)]
    ELSE [nymph |-> 0, adult |-> prev.adult + prev.nymph]

\* (variant of PopStep whose late stage forgets the adults of the day
\* before)
PopStep_lateForgets(prev, day, t, p) ==
    IF day = 1 THEN [nymph |-> prev.nymph, adult |-> 0]
    ELSE IF day < early_stage_end
    THEN [nymph |-> prev.nymph + growth(prev.nymph, t, p), adult |-> prev.adult]
    ELSE IF day < transition_end
    THEN [nymph |-> prev.nymph - growth(prev.nymph, t, p),
          adult |-> prev.adult + growth(prev.nymph, t, p)]
    ELSE [nymph |-> 0, adult |-> prev.nymph]

\* (variant of PopStep whose late stage drops the nymphs of the day before)
PopStep_lateDrops(prev, day, t, p) ==
    IF day = 1 THEN [nymph |-> prev.nymph, adult |-> 0]
    ELSE IF day < early_stage_end
    THEN [nymph |-> prev.nymph + growth(prev.nymph, t, p), adult |-> prev.adult]
    ELSE IF day < transition_end
    THEN [nymph |-> prev.nymph - growth(prev.nymph, t, p),
          adult |-> prev.adult + growth(prev.nymph, t, p)]
    ELSE [nymph |-> 0, adult |-> prev.adult]

\* (variant of PopStep whose early stage adds no nymphs)
PopStep_noGrowth(prev, day, t, p) ==
    IF day = 1 THEN [nymph |-> prev.nymph, adult |-> 0]
    ELSE IF day < early_stage_end
    THEN [nymph |-> prev.nymph, adult |-> prev.adult]
    ELSE IF day < transition_end
    THEN [nymph |-> prev.nymph - growth(prev.nymph, t, p),
          adult |-> prev.adult + growth(prev.nymph, t, p)]
    ELSE [nymph |-> 0, adult |-> prev.adult + prev.nymph]

\* one iteration of the day loop: the counts of day `day` from those of the
\* previous day
PopStep(prev, day, t, p) ==
    IF day = 1 THEN [nymph |-> prev.nymph, adult |-> 0]
    ELSE IF day < early_stage_end
    THEN [nymph |-> prev.nymph + growth(prev.nymph, t, p), adult |-> prev.adult]
    ELSE IF day < transition_end
    THEN [nymph |-> prev.nymph - growth(prev.nymph, t, p),
          adult |-> prev.adult + growth(prev.nymph, t, p)]
    ELSE [nymph |-> 0, adult |-> prev.adult + prev.nymph]

\* the day loop over days from..to, started from the counts `prev` of day
\* from-1; the range is halved so that the evaluation stays shallow
RECURSIVE PopSeries(_, _, _, _, _)
PopJoin(temp, precip, left, mid, to) ==
    left \o PopSeries(temp, precip, left[Len(left)], mid + 1, to)

PopSeries(temp, precip, prev, from, to) ==
    IF from = to THEN << PopStep(prev, from, temp[from], precip[from]) >>
    ELSE PopJoin(temp, precip,
                 PopSeries(temp, precip, prev, from, (from + to) \div 2),
                 (from + to) \div 2, to)

slf_population_model(temp, precip, eggs) ==
    PopSeries(temp, precip, [nymph |-> eggs, adult |-> 0], 1, end_day)

\* ---------------------------------------------------------- scheduler ----
Products == 1..Len(df)
Classes == { df[i].Class : i \in Products }
Days == 1..end_day

\* comparisons as the floats make them: false when a side is NaN
Ge(a, b) == a # NaN /\ b # NaN /\ a >= b

is_autumn(day) == ~(day <= summer_end)

\* (variant of RequiresTreatment that judges every day by the nymph count)
RequiresTreatment_nymphs(day) ==
    nymph_count[day] * 100 >= nymph_threshold100

\* the condition of the outer if: pressure requires treatment
RequiresTreatment(day) ==
    \/ ~is_autumn(day) /\ nymph_count[day] * 100 >= nymph_threshold100
    \/ is_autumn(day) /\ adult_count[day] * 100 >= adult_threshold100

\* row['day'] - last_use_day[class] > PHI
TimeSinceLastUseOk(day, p) ==
    \/ last_use_day[df[p].Class] = NegInf
    \/ day - last_use_day[df[p].Class] > df[p].PHI

\* (variant of Selected that reads the rating of the other life stage)
Selected_swapped(day, p) ==
    \/ is_autumn(day) /\ Ge(df[p].EffectOnNymphs, Gate4)
    \/ /\ ~is_autumn(day) /\ Ge(df[p].EffectOnAdults, Gate4)
       /\ TimeSinceLastUseOk(day, p)
       /\ seasonal_usage[p] < df[p].SeasonalMax
       /\ seasonal_use_count[p] < df[p].MaxApplications

\* the condition of the inner if, with Python's precedence: `and` binds
\* tighter than `or`, so the three ledger tests belong to the summer branch
Selected(day, p) ==
    \/ is_autumn(day) /\ Ge(df[p].EffectOnAdults, Gate4)
    \/ /\ ~is_autumn(day) /\ Ge(df[p].EffectOnNymphs, Gate4)
       /\ TimeSinceLastUseOk(day, p)
       /\ seasonal_usage[p] < df[p].SeasonalMax
       /\ seasonal_use_count[p] < df[p].MaxApplications

\* (variant of OutsidePHI that forgets the interval)
OutsidePHI_harvest(day, p) == day <= harvest_day

\* (variant of OutsidePHI for a scan without the test of line 389)
OutsidePHI_untested(day, p) == TRUE

\* if row['day'] <= harvest_day - PHI
OutsidePHI(day, p) == day <= harvest_day - df[p].PHI

\* the product the scan applies: the first selected one that is outside its
\* PHI; NoneP when the scan ends without applying
Applied(day) ==
    LET ok == { p \in Products : Selected(day, p) /\ OutsidePHI(day, p) }
    IN IF ok = {} THEN NoneP ELSE CHOOSE p \in ok : \A q \in ok : p <= q

\* the 'pesticide' cell after the scan: every selected product is written
\* to it before the PHI test, so it holds the last selected product scanned
LastWritten(day) ==
    LET upto == IF Applied(day) = NoneP THEN Len(df) ELSE Applied(day)
        sel == { p \in 1..upto : Selected(day, p) }
    IN IF sel = {} THEN NoneP ELSE CHOOSE p \in sel : \A q \in sel : p >= q

\* insecticide_effectiveness: the rating times the day's population
Effect_on_Nymphs(day, p) ==
    IF df[p].EffectOnNymphs = NaN THEN NaN
    ELSE df[p].EffectOnNymphs * nymph_count[day]
Effect_on_Adults(day, p) ==
    IF df[p].EffectOnAdults = NaN THEN NaN
    ELSE df[p].EffectOnAdults * adult_count[day]

\* Available_in and Available_until_Harvest: max(0, PHI - day)
Available_in(day, p) == Max(0, df[p].PHI - day)

\* the four columns insecticide_effectiveness assigns, for every row of df
EffectivenessColumns(day) ==
    [p \in Products |->
        [Effect_on_Nymphs |-> Effect_on_Nymphs(day, p),
         Effect_on_Adults |-> Effect_on_Adults(day, p),
         Available_in |-> Available_in(day, p),
         Available_until_Harvest |-> Available_in(day, p)]]

efficacy(day, p) ==
    IF ~is_autumn(day) THEN Effect_on_Nymphs(day, p)
    ELSE Effect_on_Adults(day, p)

\* application_rate = 6.4 * efficacy, in tenths
ApplicationRate(day, p) == (BaseRate10 * efficacy(day, p)) \div 4

ConstList(v) == [d \in Days |-> v]

NoError == [kind |-> "none", product |-> NoneP, day |-> 0]
NoOutcome == [pc |-> "none"]
NoProfit ==
    [status |-> "none", value |-> 0, pesticide_cost |-> 0, base_yield |-> 0,
     price_per_grape |-> 0, mold_growth_rate |-> 0,
     harvest_penalty_rate |-> 0]

\* the state at the start of the day loop of a call of the scheduler, for
\* inputs drawn from the given sets
InitWith(tables, harvests, temps) ==
    /\ \E t \in temps : temperature = ConstList(t)
    /\ \E p \in PrecipValues : precipitation = ConstList(p)
    /\ harvest_day \in harvests
    /\ df \in tables
    /\ initial_eggs = default_initial_eggs
    /\ \E pop \in { slf_population_model(temperature, precipitation,
                                          initial_eggs) } :
          /\ nymph_count = [d \in Days |-> pop[d].nymph]
          /\ adult_count = [d \in Days |-> pop[d].adult]
    /\ written = <<>>
    /\ call = 1
    /\ first = NoOutcome
    /\ profit = NoProfit
    /\ pesticide = [d \in Days |-> NoneP]
    /\ application_rate = [d \in Days |-> 0]
    /\ last_use_day = [c \in Classes |-> NegInf]
    /\ seasonal_usage = [p \in Products |-> 0]
    /\ seasonal_use_count = [p \in Products |-> 0]
    /\ index = 0
    /\ pc = "loop"
    /\ error = NoError
    /\ result = <<>>

Init == InitWith(Tables, HarvestDays, TempValues)

\* a loop iteration whose outer if is false
NoTreatment ==
    /\ pc = "loop" /\ index < end_day
    /\ ~RequiresTreatment(index + 1)
    /\ index' = index + 1
    /\ UNCHANGED <<inputs, pesticide, application_rate, ledger, pc, error,
                   result, written, outside>>

\* (variant of Commit that records the last use for every class)
Commit_allClasses(day, p) ==
    /\ pesticide' = [pesticide EXCEPT ![day] = p]
    /\ application_rate' =
           [application_rate EXCEPT ![day] = ApplicationRate(day, p)]
    /\ seasonal_usage' =
           [seasonal_usage EXCEPT ![p] = @ + ApplicationRate(day, p)]
    /\ seasonal_use_count' = [seasonal_use_count EXCEPT ![p] = @ + 1]
    /\ last_use_day' = [c \in Classes |-> day]
    /\ written' = EffectivenessColumns(day)

\* (variant of Commit that leaves the volume of the product as it was)
Commit_noVolume(day, p) ==
    /\ pesticide' = [pesticide EXCEPT ![day] = p]
    /\ application_rate' =
           [application_rate EXCEPT ![day] = ApplicationRate(day, p)]
    /\ seasonal_usage' = seasonal_usage
    /\ seasonal_use_count' = [seasonal_use_count EXCEPT ![p] = @ + 1]
    /\ last_use_day' = [last_use_day EXCEPT ![df[p].Class] = day]
    /\ written' = EffectivenessColumns(day)

\* the ledger and schedule updates of lines 410-416 for product p
Commit(day, p) ==
    /\ pesticide' = [pesticide EXCEPT ![day] = p]
    /\ application_rate' =
           [application_rate EXCEPT ![day] = ApplicationRate(day, p)]
    /\ seasonal_usage' =
           [seasonal_usage EXCEPT ![p] = @ + ApplicationRate(day, p)]
    /\ seasonal_use_count' = [seasonal_use_count EXCEPT ![p] = @ + 1]
    /\ last_use_day' = [last_use_day EXCEPT ![df[p].Class] = day]
    /\ written' = EffectivenessColumns(day)

\* (variant of OverSeasonalMax that tests the usage before the update)
OverSeasonalMax_before(day, p) == seasonal_usage[p] > df[p].SeasonalMax

\* the post-commit test: seasonal_usage[chosen] > Seasonal Max
OverSeasonalMax(day, p) ==
    seasonal_usage[p] + ApplicationRate(day, p) > df[p].SeasonalMax

\* (variant of Apply in a loop that goes on after an error)
Apply_afterError ==
    /\ index < end_day
    /\ RequiresTreatment(index + 1)
    /\ Applied(index + 1) # NoneP
    /\ ~OverSeasonalMax(index + 1, Applied(index + 1))
    /\ Commit(index + 1, Applied(index + 1))
    /\ index' = index + 1
    /\ UNCHANGED <<inputs, pc, error, result, outside>>

\* (variant of Apply whose application feeds back into the population: the
\* counts of the later days are lowered by the efficacy rating)
Apply_feedsBack ==
    /\ pc = "loop" /\ index < end_day
    /\ RequiresTreatment(index + 1)
    /\ Applied(index + 1) # NoneP
    /\ ~OverSeasonalMax(index + 1, Applied(index + 1))
    /\ Commit(index + 1, Applied(index + 1))
    /\ index' = index + 1
    /\ nymph_count' = [d \in Days |-> IF d > index + 1 THEN 0
                                     ELSE nymph_count[d]]
    /\ adult_count' = [d \in Days |-> IF d > index + 1 THEN 0
                                     ELSE adult_count[d]]
    /\ UNCHANGED <<temperature, precipitation, harvest_day, df, initial_eggs,
                   pc, error, result, outside>>

\* a loop iteration that applies a product and goes on
Apply ==
    /\ pc = "loop" /\ index < end_day
    /\ RequiresTreatment(index + 1)
    /\ Applied(index + 1) # NoneP
    /\ ~OverSeasonalMax(index + 1, Applied(index + 1))
    /\ Commit(index + 1, Applied(index + 1))
    /\ index' = index + 1
    /\ UNCHANGED <<inputs, pc, error, result, outside>>

\* a loop iteration that applies a product and raises "Seasonal Max exceeded
\* for chosen pesticide ..."
RaiseSeasonalMax ==
    /\ pc = "loop" /\ index < end_day
    /\ RequiresTreatment(index + 1)
    /\ Applied(index + 1) # NoneP
    /\ OverSeasonalMax(index + 1, Applied(index + 1))
    /\ Commit(index + 1, Applied(index + 1))
    /\ index' = index + 1
    /\ pc' = "raised"
    /\ error' = [kind |-> "SeasonalMax", product |-> Applied(index + 1),
                 day |-> 0]
    /\ UNCHANGED <<inputs, result, outside>>

\* a loop iteration whose scan applies nothing: raises "No suitable pesticide
\* found or PHI constraints prevent application on day ..."
RaiseNoSuitable ==
    /\ pc = "loop" /\ index < end_day
    /\ RequiresTreatment(index + 1)
    /\ Applied(index + 1) = NoneP
    /\ pesticide' = [pesticide EXCEPT ![index + 1] = LastWritten(index + 1)]
    /\ index' = index + 1
    /\ pc' = "raised"
    /\ error' = [kind |-> "NoSuitable", product |-> NoneP, day |-> index + 1]
    /\ UNCHANGED <<inputs, application_rate, ledger, result, written,
                   outside>>

\* (variant of MaxPHI that takes the smallest interval)
MaxPHI_min ==
    CHOOSE m \in { df[p].PHI : p \in Products } :
        \A q \in Products : df[q].PHI >= m

\* df['PHI (days)'].max()
MaxPHI ==
    CHOOSE m \in { df[p].PHI : p \in Products } :
        \A q \in Products : df[q].PHI <= m

\* the rows of application_schedule, in day order
ScheduleRows ==
    [d \in Days |-> [day |-> d, pesticide |-> pesticide[d],
                     application_rate |-> application_rate[d]]]

\* (variant of KeptByFilter that forgets the interval)
KeptByFilter_harvest(row) == row.day <= harvest_day

\* application_schedule['day'] <= harvest_day - df['PHI (days)'].max()
KeptByFilter(row) == row.day <= harvest_day - MaxPHI

\* (variant of Return that hands out the schedule as the loop left it)
Return_unfiltered ==
    /\ pc = "loop" /\ index = end_day
    /\ result' = ScheduleRows
    /\ pc' = "returned"
    /\ UNCHANGED <<inputs, pesticide, application_rate, ledger, index, error,
                   written, outside>>

\* the filter after the loop, and the return
Return ==
    /\ pc = "loop" /\ index = end_day
    /\ result' = SelectSeq(ScheduleRows, KeptByFilter)
    /\ pc' = "returned"
    /\ UNCHANGED <<inputs, pesticide, application_rate, ledger, index, error,
                   written, outside>>

Next ==
    \/ NoTreatment
    \/ Apply
    \/ RaiseSeasonalMax
    \/ RaiseNoSuitable
    \/ Return

Spec == Init /\ [][Next]_vars

\* ------------------------------------------------------ a second call ----
\* what a call of the scheduler leaves to its caller and in its locals
Outcome ==
    [pc |-> pc, error |-> error, result |-> result, index |-> index,
     pesticide |-> pesticide, application_rate |-> application_rate,
     last_use_day |-> last_use_day, seasonal_usage |-> seasonal_usage,
     seasonal_use_count |-> seasonal_use_count]

\* (variant of Reinitialise whose ledger outlives the call)
Reinitialise_sharedLedger ==
    /\ \E pop \in { slf_population_model(temperature, precipitation,
                                          initial_eggs) } :
          /\ nymph_count' = [d \in Days |-> pop[d].nymph]
          /\ adult_count' = [d \in Days |-> pop[d].adult]
    /\ pesticide' = [d \in Days |-> NoneP]
    /\ application_rate' = [d \in Days |-> 0]
    /\ UNCHANGED ledger
    /\ index' = 0
    /\ pc' = "loop"
    /\ error' = NoError
    /\ result' = <<>>

\* lines 343-363 for a call on the same arguments: the population series,
\* the schedule and the three ledger dictionaries are built anew; df is the
\* caller's table and keeps the columns the previous call wrote
Reinitialise ==
    /\ \E pop \in { slf_population_model(temperature, precipitation,
                                          initial_eggs) } :
          /\ nymph_count' = [d \in Days |-> pop[d].nymph]
          /\ adult_count' = [d \in Days |-> pop[d].adult]
    /\ pesticide' = [d \in Days |-> NoneP]
    /\ application_rate' = [d \in Days |-> 0]
    /\ last_use_day' = [c \in Classes |-> NegInf]
    /\ seasonal_usage' = [p \in Products |-> 0]
    /\ seasonal_use_count' = [p \in Products |-> 0]
    /\ index' = 0
    /\ pc' = "loop"
    /\ error' = NoError
    /\ result' = <<>>

\* the caller calls the scheduler again with the same arguments once the
\* first call has returned or raised
Rerun ==
    /\ call = 1 /\ pc \in {"returned", "raised"}
    /\ first' = Outcome
    /\ call' = 2
    /\ Reinitialise
    /\ UNCHANGED <<temperature, precipitation, harvest_day, df, initial_eggs,
                   written, profit>>

RerunHarvestDays == {160, 203}
RerunTempValues == {25}

InitRerun == InitWith(Tables, RerunHarvestDays, RerunTempValues)

NextRerun ==
    \/ NoTreatment
    \/ Apply
    \/ RaiseSeasonalMax
    \/ RaiseNoSuitable
    \/ Return
    \/ Rerun

SpecRerun == InitRerun /\ [][NextRerun]_vars

\* one call of the scheduler on the weather of the notebook's example
SpecExample == InitRerun /\ [][Next]_vars

\* ------------------------------------------------- calculate_profit ----
\* the scheduler's output handed to calculate_profit as its df
vineyard_length == 10
depth == 1
CostValues == {0, 1}
RateValues == {0, 1}
YieldValues == {0, 100}
PriceValues == {0, 3}

RECURSIVE SumOver(_, _, _)
SumOver(f, from, to) ==
    IF from > to THEN 0
    ELSE IF from = to THEN f[from]
    ELSE LET mid == (from + to) \div 2
         IN SumOver(f, from, mid) + SumOver(f, mid + 1, to)

\* (variant of ReadsHarvestDay for a table that has the column)
ReadsHarvestDay_never(rows) == FALSE

\* the first test of line 514 is true on some row, so its second operand
\* is evaluated
ReadsHarvestDay(rows) ==
    \E i \in 1..Len(rows) : rows[i].application_rate > 0

\* total_pesticide_cost after the loop
total_pesticide_cost(rows, cost) ==
    SumOver([i \in 1..Len(rows) |->
                IF rows[i].pesticide # NoneP
                THEN cost * (vineyard_length * 4 * depth) ELSE 0],
            1, Len(rows))

\* total_mold_impact after the loop
total_mold_impact(rows, rate) ==
    SumOver([i \in 1..Len(rows) |->
                rate * (nymph_count[rows[i].day] + adult_count[rows[i].day])],
            1, Len(rows))

\* calculate_profit returns: no row made line 514 read df['harvest_day'],
\* so total_harvest_penalty is still 0
ProfitReturns ==
    /\ pc = "returned" /\ profit.status = "none"
    /\ ~ReadsHarvestDay(result)
    /\ \E cost \in CostValues, mold \in RateValues, pen \in RateValues,
          base \in YieldValues, price \in PriceValues :
          profit' =
             [status |-> "returned",
              value |-> Max(0, base - total_mold_impact(result, mold) - 0)
                           * price - total_pesticide_cost(result, cost),
              pesticide_cost |-> cost, base_yield |-> base,
              price_per_grape |-> price, mold_growth_rate |-> mold,
              harvest_penalty_rate |-> pen]
    /\ UNCHANGED <<inputs, pesticide, application_rate, ledger, index, pc,
                   error, result, written, call, first>>

\* calculate_profit fails: the schedule has no column 'harvest_day', and
\* df['harvest_day'] raises KeyError on the first row with an application
ProfitKeyError ==
    /\ pc = "returned" /\ profit.status = "none"
    /\ ReadsHarvestDay(result)
    /\ \E cost \in CostValues, mold \in RateValues, pen \in RateValues,
          base \in YieldValues, price \in PriceValues :
          profit' =
             [status |-> "KeyError", value |-> 0,
              pesticide_cost |-> cost, base_yield |-> base,
              price_per_grape |-> price, mold_growth_rate |-> mold,
              harvest_penalty_rate |-> pen]
    /\ UNCHANGED <<inputs, pesticide, application_rate, ledger, index, pc,
                   error, result, written, call, first>>

\* product tables with a product whose PHI reaches the harvest day
EvalPool ==
    { Row("A", "Excellent", "Excellent", 0, 200000, 200),
      Row("B", "Good", "Good", 203, 100000, 100),
      Row("B", "Empty", "Empty", 0, 100000, 100),
      Row("B", "Excellent", "Good", 20, 400, 2) }

RECURSIVE EvalTablesOfLen(_)
EvalTablesOfLen(n) ==
    IF n = 0 THEN { <<>> }
    ELSE { Append(t, r) : t \in EvalTablesOfLen(n - 1), r \in EvalPool }

EvalTables == UNION { EvalTablesOfLen(n) : n \in 1..MaxProducts }
EvalHarvestDays == {190, 203}
EvalTempValues == {25}

InitEval == InitWith(EvalTables, EvalHarvestDays, EvalTempValues)

NextEval ==
    \/ NoTreatment
    \/ Apply
    \/ RaiseSeasonalMax
    \/ RaiseNoSuitable
    \/ Return
    \/ ProfitReturns
    \/ ProfitKeyError

SpecEval == InitEval /\ [][NextEval]_vars

\* ------------------------------------- the loop of slf_population_model ----
\* a call of slf_population_model on its own, one day of its loop at a time
PopTempValues == {5, 13, 25, 30}
PopPrecipValues == {0, 5, 20}
PopEggValues == {0, 10, 99, 150, 1000}

\* the input series: one value up to a day of change, another from it on
\* (constant when the two are equal)
PopTempChange == 40
PopPrecipChange == 100
StepList(a, b, k) == [d \in Days |-> IF d < k THEN a ELSE b]

\* np.zeros_like for both counts, before the first iteration; the
\* scheduler's variables play no part
InitPop ==
    /\ \E a \in PopTempValues, b \in PopTempValues :
          temperature = StepList(a, b, PopTempChange)
    /\ \E a \in PopPrecipValues, b \in PopPrecipValues :
          precipitation = StepList(a, b, PopPrecipChange)
    /\ initial_eggs \in PopEggValues
    /\ nymph_count = ConstList(0)
    /\ adult_count = ConstList(0)
    /\ index = 0
    /\ pc = "pop"
    /\ harvest_day = 0
    /\ df = <<>>
    /\ written = <<>>
    /\ call = 1
    /\ first = NoOutcome
    /\ profit = NoProfit
    /\ pesticide = ConstList(NoneP)
    /\ application_rate = ConstList(0)
    /\ last_use_day = <<>>
    /\ seasonal_usage = <<>>
    /\ seasonal_use_count = <<>>
    /\ error = NoError
    /\ result = <<>>

\* the counts the iteration of day `day` reads: those of the day before
PopPrev(day) ==
    IF day = 1 THEN [nymph |-> initial_eggs, adult |-> 0]
    ELSE [nymph |-> nymph_count[day - 1], adult |-> adult_count[day - 1]]

\* one iteration of the loop of line 88
PopDay ==
    /\ pc = "pop" /\ index < end_day
    /\ \E cur \in { PopStep(PopPrev(index + 1), index + 1,
                            temperature[index + 1],
                            precipitation[index + 1]) } :
          /\ nymph_count' = [nymph_count EXCEPT ![index + 1] = cur.nymph]
          /\ adult_count' = [adult_count EXCEPT ![index + 1] = cur.adult]
    /\ index' = index + 1
    /\ UNCHANGED <<temperature, precipitation, harvest_day, df, initial_eggs,
                   pesticide, application_rate, ledger, pc, error, result,
                   written, outside>>

\* return {"days": ..., "nymph_count": ..., "adult_count": ...}
PopReturn ==
    /\ pc = "pop" /\ index = end_day
    /\ pc' = "popdone"
    /\ UNCHANGED <<inputs, pesticide, application_rate, ledger, index, error,
                   result, written, outside>>

NextPop ==
    \/ PopDay
    \/ PopReturn

SpecPop == InitPop /\ [][NextPop]_vars

\* ------------------------------------------------------- properties ----
\* product p is applied by the step: its ledger count moves
AppliedInStep(p) == seasonal_use_count'[p] # seasonal_use_count[p]

\* a step that processes a day; the day is index'
DayStep == index' = index + 1

\* the rating of p on the life stage judged on `day`
RelevantRating(day, p) ==
    IF day <= 92 THEN df[p].EffectOnNymphs ELSE df[p].EffectOnAdults

\* the five conditions of the selection rule, on the ledger before the day;
\* the volume condition adds the dose that the day would record
RuleQualifies(day, p) ==
    /\ RelevantRating(day, p) # NaN /\ RelevantRating(day, p) >= 3
    /\ \/ last_use_day[df[p].Class] = NegInf
       \/ day - last_use_day[df[p].Class] > df[p].PHI
    /\ seasonal_usage[p] + ApplicationRate(day, p) <= df[p].SeasonalMax
    /\ seasonal_use_count[p] < df[p].MaxApplications
    /\ day <= harvest_day - df[p].PHI

\* the same rule with the volume condition read in the weakest way: the
\* product is not yet at its cap.  Every product that satisfies
\* RuleQualifies satisfies this one.
NotExcluded(day, p) ==
    /\ RelevantRating(day, p) # NaN /\ RelevantRating(day, p) >= 3
    /\ \/ last_use_day[df[p].Class] = NegInf
       \/ day - last_use_day[df[p].Class] > df[p].PHI
    /\ seasonal_usage[p] < df[p].SeasonalMax
    /\ seasonal_use_count[p] < df[p].MaxApplications
    /\ day <= harvest_day - df[p].PHI

\* C1: on a day where pressure requires treatment and no product qualifies
\* (wrong rating, rotation interval active, volume or count exhausted, or
\* inside the PHI), the run aborts with the error that names the day.
C1_UnmetAborts ==
    [][(/\ DayStep
        /\ RequiresTreatment(index + 1)
        /\ \A p \in Products : ~NotExcluded(index + 1, p))
       => (/\ pc' = "raised"
           /\ error'.kind = "NoSuitable"
           /\ error'.day = index + 1)]_vars

\* C2: in every state the application count of every product is at most
\* its Max Applications.
C2_CountWithinMax ==
    \A p \in Products : seasonal_use_count[p] <= df[p].MaxApplications

\* C3: whenever a product of class c is applied on day d, class c was never
\* applied before or its last application is more than the product's PHI
\* days back.
C3_ClassRotation ==
    [][\A p \in Products :
          (DayStep /\ AppliedInStep(p))
          => \/ last_use_day[df[p].Class] = NegInf
             \/ (index + 1) - last_use_day[df[p].Class] > df[p].PHI]_vars

\* the state part of C4
CapExceededOnlyWhenAborted ==
    /\ \A p \in Products :
          seasonal_usage[p] > df[p].SeasonalMax
          => (pc = "raised" /\ error.kind = "SeasonalMax"
              /\ error.product = p)
    /\ (pc = "raised" /\ error.kind = "SeasonalMax")
       => /\ error.product \in Products
          /\ seasonal_usage[error.product] > df[error.product].SeasonalMax
          /\ pesticide[index] = error.product
          /\ application_rate[index] > 0
          /\ seasonal_use_count[error.product] >= 1
          /\ last_use_day[df[error.product].Class] = index

\* the step part of C4: the aborting step commits the application
AbortKeepsApplication ==
    (pc' = "raised" /\ error'.kind = "SeasonalMax")
    => /\ seasonal_usage'[error'.product]
              = seasonal_usage[error'.product] + application_rate'[index']
       /\ seasonal_use_count'[error'.product]
              = seasonal_use_count[error'.product] + 1
       /\ last_use_day'[df[error'.product].Class] = index'
       /\ \A q \in Products \ {error'.product} :
              /\ seasonal_usage'[q] = seasonal_usage[q]
              /\ seasonal_use_count'[q] = seasonal_use_count[q]

\* C4: a cumulative volume is above its Seasonal Max only in the state
\* aborted by the seasonal-max error for that product, and in that state the
\* application that caused it is in the ledger (volume, count, last use).
C4_CapOnlyInAbortedState ==
    [](CapExceededOnlyWhenAborted) /\ [][AbortKeepsApplication]_vars

C4_Witness ==
    /\ pc = "raised" /\ error.kind = "SeasonalMax"
    /\ seasonal_usage[error.product] > df[error.product].SeasonalMax
    /\ seasonal_use_count[error.product] >= 2

\* C5: a product is applied only if its cumulative volume with the day's
\* dose added does not exceed its Seasonal Max.
C5_CapCheckedWithDose ==
    [][\A p \in Products :
          (DayStep /\ AppliedInStep(p))
          => seasonal_usage[p] + application_rate'[index']
                 <= df[p].SeasonalMax]_vars

\* C6: every application happens on a day d <= harvest_day - PHI of the
\* applied product.
C6_OutsidePHI ==
    [][\A p \in Products :
          (DayStep /\ AppliedInStep(p))
          => index' <= harvest_day - df[p].PHI]_vars

\* an application was made on the last processed day by a product that has
\* a positive PHI, on the last day its PHI allows
C6_Witness ==
    /\ index >= 1 /\ pesticide[index] # NoneP
    /\ application_rate[index] > 0
    /\ df[pesticide[index]].PHI > 0
    /\ index = harvest_day - df[pesticide[index]].PHI

\* C7: a product is applied on a summer day only if its rating on nymphs is
\* at least 0.75, on an autumn day only if its rating on adults is; a product
\* with a lower or a missing rating is never applied.
C7_EfficacyGate ==
    [][\A p \in Products :
          (DayStep /\ AppliedInStep(p))
          => (RelevantRating(index', p) # NaN
              /\ RelevantRating(index', p) >= 3)]_vars

\* an application on the last processed day passed over an earlier product
\* whose rating on the relevant stage is missing
C7_Witness ==
    /\ index >= 1 /\ pesticide[index] # NoneP
    /\ application_rate[index] > 0
    /\ \E q \in 1..(pesticide[index] - 1) : RelevantRating(index, q) = NaN

\* C8: the product applied on a day is the first one in table order that
\* satisfies all five conditions of the rule.
C8_FirstQualifying ==
    [][\A p \in Products :
          (DayStep /\ AppliedInStep(p))
          => /\ RuleQualifies(index + 1, p)
             /\ \A q \in 1..(p - 1) : ~RuleQualifies(index + 1, q)]_vars

\* C9: the dose recorded for an application is 6.4 times the rating of the
\* applied product on the relevant stage (both sides times 40).
C9_DoseIsRateTimesRating ==
    \A d \in 1..index :
        application_rate[d] # 0
        => application_rate[d] * 4 = 64 * RelevantRating(d, pesticide[d])

\* C10: the schedule returned by a completed run holds exactly the days
\* 1..min(N, harvest_day - max PHI), once each and in order.
C10_ScheduleDays ==
    pc = "returned"
    => LET maxphi == CHOOSE m \in { df[p].PHI : p \in Products } :
                         \A q \in Products : df[q].PHI <= m
           truncatedEnd == Max(0, Min(183, harvest_day - maxphi))
       IN /\ Len(result) = truncatedEnd
          /\ \A i \in 1..Len(result) : result[i].day = i

\* a completed run whose schedule is cut short by a PHI that is not the
\* smallest of the table
C10_Witness ==
    /\ pc = "returned"
    /\ Len(result) > 0 /\ Len(result) < 183
    /\ \E p, q \in Products : df[p].PHI < df[q].PHI

\* the relevant count of `day` is below its threshold (0.9 and 0.3)
BelowThreshold(day) ==
    \/ day <= 92 /\ nymph_count[day] * 10 < 9
    \/ day > 92 /\ adult_count[day] * 10 < 3

\* C11: a day whose relevant count is below threshold gets a no-treatment
\* decision (no product, rate 0), raises no error and leaves the whole
\* ledger unchanged.
C11_NoTreatmentDay ==
    [][(DayStep /\ BelowThreshold(index + 1))
       => /\ pesticide'[index + 1] = NoneP
          /\ application_rate'[index + 1] = 0
          /\ pc' = "loop" /\ error' = NoError
          /\ seasonal_usage' = seasonal_usage
          /\ seasonal_use_count' = seasonal_use_count
          /\ last_use_day' = last_use_day]_vars

\* a below-threshold day was processed after products had been applied
C11_Witness ==
    /\ pc = "loop" /\ index >= 1 /\ BelowThreshold(index)
    /\ pesticide[index] = NoneP /\ application_rate[index] = 0
    /\ \E p \in Products : seasonal_use_count[p] > 0

\* the three entries of one application all carry it, in every state
LedgerWhole ==
    \A p \in Products :
        /\ seasonal_use_count[p] = 0 <=> seasonal_usage[p] = 0
        /\ seasonal_use_count[p] > 0 => last_use_day[df[p].Class] >= 1

\* a step that changes the ledger applies one product p on the day d it
\* processes, in exactly the three places
LedgerStep ==
    (ledger' # ledger)
    => /\ DayStep
       /\ \E p \in Products :
            /\ application_rate'[index'] > 0
            /\ seasonal_usage' = [seasonal_usage EXCEPT
                                     ![p] = @ + application_rate'[index']]
            /\ seasonal_use_count' = [seasonal_use_count EXCEPT ![p] = @ + 1]
            /\ last_use_day' = [last_use_day EXCEPT ![df[p].Class] = index']

\* C12: an application of product p of class c on day d changes exactly
\* three ledger entries in one step (volume of p by the rate, count of p by
\* one, last use of c to d), every other entry is unchanged, and no state
\* shows only some of the three.
C12_LedgerUpdate ==
    [](LedgerWhole) /\ [][LedgerStep]_vars

\* a product was applied while the other product, of another class, keeps
\* the entries of its own earlier application
C12_Witness ==
    /\ pc = "loop" /\ index >= 2
    /\ \E p, q \in Products :
          /\ df[p].Class # df[q].Class
          /\ pesticide[index] = p /\ application_rate[index] > 0
          /\ seasonal_use_count[q] > 0
          /\ last_use_day[df[q].Class] < index
          /\ last_use_day[df[p].Class] = index

\* C13: the error of a run aborted because a product went over its Seasonal
\* Max names the product and the day of the application.
C13_CapErrorNamesProductAndDay ==
    (pc = "raised" /\ error.kind = "SeasonalMax")
    => (error.product \in Products /\ error.day = index)

\* C14: after a fatal error on day d no later day is processed: no schedule
\* cell and no ledger entry changes any more, the run stays aborted and
\* returns no schedule.
C14_AbortIsFinal ==
    [][pc = "raised"
       => /\ pc' = "raised" /\ index' = index /\ error' = error
          /\ pesticide' = pesticide
          /\ application_rate' = application_rate
          /\ ledger' = ledger
          /\ result' = <<>>]_vars

\* the run is aborted on a day before the last, although a product could
\* be applied on the following day
C14_Witness ==
    /\ pc = "raised" /\ index < 183 /\ result = <<>>
    /\ RequiresTreatment(index + 1)
    /\ \E p \in Products : NotExcluded(index + 1, p)

\* C15: a second call on the same inputs, made after the first call left
\* its columns in the product table, records the same decision on every day
\* and ends with the same outcome and the same ledger as the first call.
C15_SecondCallSame ==
    (call = 2)
    => /\ index <= first.index
       /\ \A d \in 1..index :
             /\ pesticide[d] = first.pesticide[d]
             /\ application_rate[d] = first.application_rate[d]
       /\ (pc \in {"returned", "raised"}) => (Outcome = first)

\* the second call has returned, with applications made in both calls and
\* the columns of the first call still in the table when it started
C15_Witness ==
    /\ call = 2 /\ pc = "returned" /\ written # <<>>
    /\ first.pc = "returned" /\ Len(result) > 0
    /\ \E p \in Products : seasonal_use_count[p] > 0

\* product p meets every condition of the rule but the application count on
\* the day, and no other product of the table reaches the efficacy gate
OnlyCompliant(day, p) ==
    /\ RelevantRating(day, p) # NaN /\ RelevantRating(day, p) >= 3
    /\ \/ last_use_day[df[p].Class] = NegInf
       \/ day - last_use_day[df[p].Class] > df[p].PHI
    /\ seasonal_usage[p] + ApplicationRate(day, p) <= df[p].SeasonalMax
    /\ day <= harvest_day - df[p].PHI
    /\ \A q \in Products \ {p} :
          ~(RelevantRating(day, q) # NaN /\ RelevantRating(day, q) >= 3)

\* C16: (Scenario B) when the only compliant product of the table has
\* Max Applications 1, the first day requiring treatment applies it and a
\* later day requiring treatment, the product being used up, aborts the run
\* with the error that names the day; in summer and in autumn alike.
C16_ScenarioB ==
    [][\A p \in Products :
          (/\ DayStep
           /\ RequiresTreatment(index + 1)
           /\ OnlyCompliant(index + 1, p)
           /\ df[p].MaxApplications = 1)
          => /\ (seasonal_use_count[p] = 0) => AppliedInStep(p)
             /\ (seasonal_use_count[p] = 1)
                   => /\ ~AppliedInStep(p)
                      /\ pc' = "raised"
                      /\ error'.kind = "NoSuitable"
                      /\ error'.day = index + 1]_vars

\* the summer half of Scenario B: every such day that is not in autumn
C16_ScenarioB_Summer ==
    [][\A p \in Products :
          (/\ DayStep
           /\ index + 1 <= 92
           /\ RequiresTreatment(index + 1)
           /\ OnlyCompliant(index + 1, p)
           /\ df[p].MaxApplications = 1)
          => /\ (seasonal_use_count[p] = 0) => AppliedInStep(p)
             /\ (seasonal_use_count[p] = 1)
                   => /\ ~AppliedInStep(p)
                      /\ pc' = "raised"
                      /\ error'.kind = "NoSuitable"
                      /\ error'.day = index + 1]_vars

\* C17: (Scenario D) on a day requiring treatment, when the first product
\* of the table that the rule does not exclude has never been used and has
\* a Seasonal Max below the dose of one application, that product is
\* applied and the run aborts with the cap error naming it: no unmet error,
\* no other product.
C17_ScenarioD ==
    [][\A p \in Products :
          (/\ DayStep
           /\ RequiresTreatment(index + 1)
           /\ NotExcluded(index + 1, p)
           /\ \A q \in 1..(p - 1) : ~NotExcluded(index + 1, q)
           /\ seasonal_usage[p] = 0
           /\ df[p].SeasonalMax < ApplicationRate(index + 1, p))
          => /\ AppliedInStep(p)
             /\ pesticide'[index + 1] = p
             /\ pc' = "raised"
             /\ error'.kind = "SeasonalMax"
             /\ error'.product = p]_vars

\* Scenario D where the product is the first one that the test of the code
\* selects and that is outside its PHI
C17_ScenarioD_CodeOrder ==
    [][\A p \in Products :
          (/\ DayStep
           /\ RequiresTreatment(index + 1)
           /\ Selected(index + 1, p) /\ OutsidePHI(index + 1, p)
           /\ \A q \in 1..(p - 1) :
                 ~(Selected(index + 1, q) /\ OutsidePHI(index + 1, q))
           /\ seasonal_usage[p] = 0
           /\ df[p].SeasonalMax < ApplicationRate(index + 1, p))
          => /\ AppliedInStep(p)
             /\ pesticide'[index + 1] = p
             /\ pc' = "raised"
             /\ error'.kind = "SeasonalMax"
             /\ error'.product = p]_vars

\* days of the schedule on which a dose was recorded
ApplicationDays == { d \in Days : application_rate[d] > 0 }

\* C18 as stated: (Scenario C) a run that completes with harvest_day equal
\* to the largest PHI of the table has at most one day with an application,
\* and the filter removes every day.
C18_ScenarioC_AsStated ==
    (pc = "returned" /\ harvest_day = MaxPHI)
    => /\ Cardinality(ApplicationDays) <= 1
       /\ result = <<>>

\* C18 (amended): a run that completes with harvest_day equal to the largest
\* PHI of the table returns an empty schedule, the filter keeping days <= 0
\* only; every application the loop recorded is on a day outside the applied
\* product's own PHI, and there is one on every day that required treatment.
C18_ScenarioC ==
    (pc = "returned" /\ harvest_day = MaxPHI)
    => /\ result = <<>>
       /\ \A d \in ApplicationDays :
             /\ pesticide[d] \in Products
             /\ d <= harvest_day - df[pesticide[d]].PHI
       /\ \A d \in Days : RequiresTreatment(d) => d \in ApplicationDays

\* a completed run with harvest_day equal to the largest PHI, more than one
\* application day and nothing returned
C18_Witness ==
    /\ pc = "returned" /\ harvest_day = MaxPHI
    /\ Cardinality(ApplicationDays) > 1
    /\ result = <<>>

\* calculate_profit was called with pesticide cost, mold growth rate and
\* harvest penalty rate all zero
ZeroRates ==
    /\ profit.status # "none"
    /\ profit.pesticide_cost = 0
    /\ profit.mold_growth_rate = 0
    /\ profit.harvest_penalty_rate = 0

\* C20: (round trip) calculate_profit on the schedule the scheduler returned,
\* with the three rates zero, returns base_yield * price_per_grape and does
\* not fail, whatever the schedule holds.
C20_RoundTrip ==
    ZeroRates
    => /\ profit.status = "returned"
       /\ profit.value = profit.base_yield * profit.price_per_grape

\* the round trip on the schedules on which calculate_profit does return
C20_RoundTrip_WhenReturned ==
    (ZeroRates /\ profit.status = "returned")
    => /\ profit.value = profit.base_yield * profit.price_per_grape
       /\ \A i \in 1..Len(result) : result[i].application_rate = 0

\* slf_population_model has returned from a call with temperature 25 and
\* precipitation 5 on every day and 1000 initial eggs
ScenarioA ==
    /\ pc = "popdone"
    /\ initial_eggs = 1000
    /\ \A d \in Days : temperature[d] = 25 /\ precipitation[d] = 5

\* the series the loop leaves is the one the scheduler starts from
PopLoopIsSeries ==
    (pc = "popdone")
    => \E pop \in { slf_population_model(temperature, precipitation,
                                         initial_eggs) } :
          \A d \in Days : /\ nymph_count[d] = pop[d].nymph
                          /\ adult_count[d] = pop[d].adult

\* C19 as stated: (Scenario A) the nymph count rises on each of days 2..59,
\* is 0 from day 120 on, and the adult count of day 183 equals the nymph
\* count of day 1, which is 1000.
C19_ScenarioA_AsStated ==
    ScenarioA
    => /\ \A d \in 2..59 : nymph_count[d] > nymph_count[d - 1]
       /\ \A d \in 120..183 : nymph_count[d] = 0
       /\ nymph_count[1] = 1000
       /\ adult_count[183] = nymph_count[1]

\* C19 (amended): (Scenario A) the nymph count is 1000 on day 1, rises on
\* each of days 2..59, is 0 from day 120 on, and the adult count of day 183
\* equals the nymph count of day 59, which is 1743.
C19_ScenarioA ==
    ScenarioA
    => /\ \A d \in 2..59 : nymph_count[d] > nymph_count[d - 1]
       /\ \A d \in 120..183 : nymph_count[d] = 0
       /\ nymph_count[1] = 1000
       /\ adult_count[183] = nymph_count[59]
       /\ adult_count[183] = 1743

\* the call of Scenario A has returned with more adults than eggs
C19_Witness ==
    /\ ScenarioA
    /\ adult_count[183] > nymph_count[1]
    /\ nymph_count[119] > 0 /\ nymph_count[120] = 0

\* C21: the adult count is 0 on every day 1..59, whatever the temperature
\* and precipitation series and the initial egg count.
C21_NoAdultsEarly ==
    \A d \in 1..59 : adult_count[d] = 0

\* a call has returned in which nymphs grew in the early phase and the first
\* adults appear on day 60
C21_Witness ==
    /\ pc = "popdone"
    /\ nymph_count[59] > nymph_count[1]
    /\ adult_count[59] = 0 /\ adult_count[60] > 0

\* C22: on every day d >= 120 the nymph count is 0 and the adult count is at
\* least that of day d-1.
C22_LatePhase ==
    \A d \in 120..index :
       /\ nymph_count[d] = 0
       /\ adult_count[d] >= adult_count[d - 1]

\* the loop is past day 120 of a call in which nymphs were left on day 119
C22_Witness ==
    /\ pc = "pop" /\ index >= 121
    /\ nymph_count[119] > 0 /\ adult_count[119] > 0
    /\ adult_count[120] > adult_count[119]

\* C23: both counts are >= 0 on every day, and the cohort moved from nymphs
\* to adults on a transition day 60..119 is at most the nymph count of the
\* day before.
C23_NonNegative ==
    /\ \A d \in Days : nymph_count[d] >= 0 /\ adult_count[d] >= 0
    /\ \A d \in 60..Min(index, 119) :
          adult_count[d] - adult_count[d - 1] <= nymph_count[d - 1]

\* a call has returned in which a cohort was moved on a transition day
C23_Witness ==
    /\ pc = "popdone"
    /\ \E d \in 60..119 :
          /\ adult_count[d] - adult_count[d - 1] > 0
          /\ nymph_count[d] = nymph_count[d - 1]
                                - (adult_count[d] - adult_count[d - 1])

\* nymph * 0.01 * temp_factor * precip_factor rounded to the nearest
\* integer, a tie going to the even neighbour
RoundedGrowth(nymph, t, p) ==
    LET num == nymph * temp_factor15(t) * precip_factor10(p)
        den == 100 * 15 * 10
        q == num \div den
        r == num % den
    IN IF 2 * r > den THEN q + 1
       ELSE IF 2 * r < den THEN q
       ELSE IF q % 2 = 0 THEN q ELSE q + 1

\* C24: on each day 2..59 the nymph count grows by the product
\* nymph * 0.01 * temp_factor * precip_factor rounded to the nearest integer,
\* and on each day 60..119 the cohort moved to the adults has that rounded
\* size.
C24_RoundedIncrement ==
    \A d \in 2..Min(index, 119) :
       \E r \in { RoundedGrowth(nymph_count[d - 1], temperature[d],
                                precipitation[d]) } :
          IF d < 60 THEN nymph_count[d] = nymph_count[d - 1] + r
          ELSE /\ adult_count[d] = adult_count[d - 1] + r
               /\ nymph_count[d] = nymph_count[d - 1] - r

\* the increments of the code: the same product cut to its integer part
C24_TruncatedIncrement ==
    \A d \in 2..Min(index, 119) :
       \E g \in { growth(nymph_count[d - 1], temperature[d],
                         precipitation[d]) } :
          IF d < 60 THEN nymph_count[d] = nymph_count[d - 1] + g
          ELSE /\ adult_count[d] = adult_count[d - 1] + g
               /\ nymph_count[d] = nymph_count[d - 1] - g

\* the population series is the one slf_population_model gives for the
\* weather inputs alone
SeriesFromWeather ==
    \E pop \in { slf_population_model(temperature, precipitation,
                                      default_initial_eggs) } :
       \A d \in Days : /\ nymph_count[d] = pop[d].nymph
                       /\ adult_count[d] = pop[d].adult

\* C25: the population series is fixed before the first day is scheduled,
\* by the weather inputs alone, and no step of the scheduler (decision,
\* ledger update, error, return) changes the nymph or adult count of any
\* day, nor the weather series.
C25_ForwardOnly ==
    /\ []((pc = "loop" /\ index = 0) => SeriesFromWeather)
    /\ [][/\ nymph_count' = nymph_count
          /\ adult_count' = adult_count
          /\ temperature' = temperature
          /\ precipitation' = precipitation]_vars

\* products have been applied on days that required treatment, and the
\* day after still requires it by the same series
C25_Witness ==
    /\ pc = "loop" /\ index >= 2 /\ index < 183
    /\ application_rate[index] > 0
    /\ \E p \in Products : seasonal_use_count[p] >= 2
    /\ RequiresTreatment(index + 1)

\* the days processed so far whose decision names product p
DaysOf(p) == { d \in 1..index : pesticide[d] = p }

\* the days processed so far on which a product of class c was applied
DaysOfClass(c) ==
    { d \in 1..index : pesticide[d] # NoneP /\ df[pesticide[d]].Class = c }

\* the sum of the doses of the days so far whose decision names product p
DosesOf(p) ==
    SumOver([d \in 1..index |-> IF pesticide[d] = p
                                THEN application_rate[d] ELSE 0], 1, index)

\* the ledger agrees with the decisions recorded so far
LedgerMatchesDecisions ==
    /\ \A p \in Products :
          /\ seasonal_use_count[p] = Cardinality(DaysOf(p))
          /\ seasonal_usage[p] = DosesOf(p)
    /\ \A c \in Classes :
          \E days \in { DaysOfClass(c) } :
             IF days = {} THEN last_use_day[c] = NegInf
             ELSE /\ last_use_day[c] \in days
                  /\ \A d \in days : d <= last_use_day[c]

\* no ledger entry goes down in a step
LedgerNeverDecreases ==
    /\ \A p \in Products :
          /\ seasonal_use_count'[p] >= seasonal_use_count[p]
          /\ seasonal_usage'[p] >= seasonal_usage[p]
    /\ \A c \in Classes : last_use_day'[c] >= last_use_day[c]

\* C26: after every processed day of a run that has not aborted, the count
\* of each product is the number of days so far whose decision names it, its
\* volume is the sum of the doses of those days, the last-use day of each
\* class is the latest day a product of the class was applied (minus
\* infinity if none), and no count, volume or last-use day ever decreases.
C26_LedgerConsistent ==
    /\ []((pc # "raised") => LedgerMatchesDecisions)
    /\ [][LedgerNeverDecreases]_vars

\* a run has completed with two products of different classes applied and
\* with days without a decision in between
C26_Witness ==
    /\ pc = "returned"
    /\ \E p, q \in Products :
          /\ df[p].Class # df[q].Class
          /\ seasonal_use_count[p] >= 2 /\ seasonal_use_count[q] >= 2
    /\ \E d \in Days : pesticide[d] = NoneP

\* C27: a day after harvest_day on which pressure requires treatment aborts
\* the run with the error that names the day, whatever the table and the
\* ledger; hence a run that completes has no day after harvest_day that
\* requires treatment.
C27_AfterHarvestAborts ==
    /\ []((pc = "returned")
          => \A d \in Days : d > harvest_day => ~RequiresTreatment(d))
    /\ [][(/\ pc = "loop" /\ DayStep
           /\ index + 1 > harvest_day
           /\ RequiresTreatment(index + 1))
          => /\ pc' = "raised"
             /\ error'.kind = "NoSuitable"
             /\ error'.day = index + 1
             /\ application_rate'[index + 1] = 0
             /\ ledger' = ledger]_vars

\* the run aborted on the day after harvest_day, a day the filter would
\* have kept or removed, with a product in the table that the selection
\* test passes and that was applied the day before
C27_Witness ==
    /\ pc = "raised" /\ error.kind = "NoSuitable"
    /\ index = harvest_day + 1
    /\ application_rate[harvest_day] > 0
    /\ \E p \in Products :
          /\ pesticide[index] = p
          /\ seasonal_use_count[p] < df[p].MaxApplications
          /\ seasonal_usage[p] < df[p].SeasonalMax

\* the rows of the returned schedule that carry a product
OutputApplications ==
    { i \in 1..Len(result) : result[i].pesticide # NoneP }

\* the sum of the ledger's application counts
LedgerApplications ==
    SumOver(seasonal_use_count, 1, Len(df))

\* the application days the filter removes
RemovedApplications ==
    { d \in Days : d > harvest_day - MaxPHI /\ application_rate[d] > 0 }

C29_Conservation ==
    /\ \A d \in 59..index :
          nymph_count[d] + adult_count[d] = nymph_count[59]
    /\ \A d \in 120..index : adult_count[d] = nymph_count[59]

\* a call has returned in which nymphs were moved during the transition and
\* the rest of them on day 120
C29_Witness ==
    /\ pc = "popdone"
    /\ adult_count[119] > 0 /\ nymph_count[119] > 0
    /\ adult_count[183] = adult_count[119] + nymph_count[119]

\* C30: with fewer than 100 initial eggs the daily increment is 0 whatever
\* the weather: the nymph count is the initial egg count on days 1..119 and
\* the adult count is 0 until day 120; with the default of 10 eggs the days
\* that require treatment are 1..92 and 120..183 for every weather series.
C30_SmallEggCount ==
    (initial_eggs < 100)
    => /\ \A d \in 1..Min(index, 119) :
             nymph_count[d] = initial_eggs /\ adult_count[d] = 0
       /\ \A d \in 120..index :
             nymph_count[d] = 0 /\ adult_count[d] = initial_eggs
       /\ (pc = "popdone" /\ initial_eggs = default_initial_eggs)
             => \A d \in Days : RequiresTreatment(d) <=> (d <= 92 \/ d >= 120)

\* a call with 99 eggs has returned, made under the most favourable weather
\* of the early phase
C30_Witness ==
    /\ pc = "popdone" /\ initial_eggs = 99
    /\ \A d \in 1..39 : temperature[d] = 25 /\ precipitation[d] = 5
    /\ nymph_count[119] = 99 /\ adult_count[120] = 99

\* the scheduler's own population series: treatment is required on days
\* 1..92 and 120..183 whatever the temperature
C30_SchedulerDays ==
    \A d \in Days : RequiresTreatment(d) <=> (d <= 92 \/ d >= 120)

====
